---- MODULE Spec2Model ----
(***************************************************************************)
(* State-machine model of the Bedrock chat front ends src/app.py (text     *)
(* chat, three credential sources) and src/app2.py (text and voice chat,   *)
(* credentials from secrets.toml).                                         *)
(*                                                                         *)
(* Python strings are tuples of one-character strings, so that lower(),    *)
(* `in`, startswith() and slicing are computed and not assumed.  Python    *)
(* values that travel through JSON (dict, list, str, int, float, None) are *)
(* tagged records [t |-> tag, v |-> payload].                              *)
(***************************************************************************)
EXTENDS Integers, Sequences, FiniteSets, TLC

(***************************************************************************)
(* String literals of the source.                                          *)
(***************************************************************************)
\* "anthropic"
anthropic ==
    <<"a","n","t","h","r","o","p","i","c">>

\* "ai21"
ai21 ==
    <<"a","i","2","1">>

\* "amazon"
amazon ==
    <<"a","m","a","z","o","n">>

\* "cohere"
cohere ==
    <<"c","o","h","e","r","e">>

\* "anthropic.claude-3-sonnet-20240229-v1:0"
claude3_sonnet ==
    <<"a","n","t","h","r","o","p","i","c",".","c","l","a","u","d","e","-","3","-","s","o","n","n","e","t","-","2","0","2","4","0","2","2","9","-","v","1",":","0">>

\* "anthropic.claude-3-haiku-20240307-v1:0"
claude3_haiku ==
    <<"a","n","t","h","r","o","p","i","c",".","c","l","a","u","d","e","-","3","-","h","a","i","k","u","-","2","0","2","4","0","3","0","7","-","v","1",":","0">>

\* "anthropic.claude-v2:1"
claude_v2 ==
    <<"a","n","t","h","r","o","p","i","c",".","c","l","a","u","d","e","-","v","2",":","1">>

\* "ai21.j2-ultra-v1"
j2_ultra ==
    <<"a","i","2","1",".","j","2","-","u","l","t","r","a","-","v","1">>

\* "ai21.j2-mid-v1"
j2_mid ==
    <<"a","i","2","1",".","j","2","-","m","i","d","-","v","1">>

\* "amazon.titan-text-express-v1"
titan_express ==
    <<"a","m","a","z","o","n",".","t","i","t","a","n","-","t","e","x","t","-","e","x","p","r","e","s","s","-","v","1">>

\* "cohere.command-text-v14"
command_text ==
    <<"c","o","h","e","r","e",".","c","o","m","m","a","n","d","-","t","e","x","t","-","v","1","4">>

\* "anthropic_version"
k_anthropic_version ==
    <<"a","n","t","h","r","o","p","i","c","_","v","e","r","s","i","o","n">>

\* "bedrock-2023-05-31"
v_bedrock_version ==
    <<"b","e","d","r","o","c","k","-","2","0","2","3","-","0","5","-","3","1">>

\* "max_tokens"
k_max_tokens ==
    <<"m","a","x","_","t","o","k","e","n","s">>

\* "temperature"
k_temperature ==
    <<"t","e","m","p","e","r","a","t","u","r","e">>

\* "messages"
k_messages ==
    <<"m","e","s","s","a","g","e","s">>

\* "role"
k_role ==
    <<"r","o","l","e">>

\* "user"
v_user ==
    <<"u","s","e","r">>

\* "content"
k_content ==
    <<"c","o","n","t","e","n","t">>

\* "prompt"
k_prompt ==
    <<"p","r","o","m","p","t">>

\* "maxTokens"
k_maxTokens ==
    <<"m","a","x","T","o","k","e","n","s">>

\* "inputText"
k_inputText ==
    <<"i","n","p","u","t","T","e","x","t">>

\* "textGenerationConfig"
k_textGenerationConfig ==
    <<"t","e","x","t","G","e","n","e","r","a","t","i","o","n","C","o","n","f","i","g">>

\* "maxTokenCount"
k_maxTokenCount ==
    <<"m","a","x","T","o","k","e","n","C","o","u","n","t">>

\* "text"
k_text ==
    <<"t","e","x","t">>

\* "completions"
k_completions ==
    <<"c","o","m","p","l","e","t","i","o","n","s">>

\* "data"
k_data ==
    <<"d","a","t","a">>

\* "results"
k_results ==
    <<"r","e","s","u","l","t","s">>

\* "outputText"
k_outputText ==
    <<"o","u","t","p","u","t","T","e","x","t">>

\* "generations"
k_generations ==
    <<"g","e","n","e","r","a","t","i","o","n","s">>

\* "No se pudo entender el audio. Intenta hablar más claro."
msg_unintelligible ==
    <<"N","o"," ","s","e"," ","p","u","d","o"," ","e","n","t","e","n","d","e","r"," ","e","l"," ","a","u","d","i","o","."," ","I","n","t","e","n","t","a"," ","h","a","b","l","a","r"," ","m","á","s"," ","c","l","a","r","o",".">>

\* "Error del servicio de reconocimiento: "
msg_request_error ==
    <<"E","r","r","o","r"," ","d","e","l"," ","s","e","r","v","i","c","i","o"," ","d","e"," ","r","e","c","o","n","o","c","i","m","i","e","n","t","o",":"," ">>

\* "Error al procesar el audio: "
msg_processing_error ==
    <<"E","r","r","o","r"," ","a","l"," ","p","r","o","c","e","s","a","r"," ","e","l"," ","a","u","d","i","o",":"," ">>

\* "AWS_ACCESS_KEY_ID"
k_AWS_ACCESS_KEY_ID ==
    <<"A","W","S","_","A","C","C","E","S","S","_","K","E","Y","_","I","D">>

\* "AWS_SECRET_ACCESS_KEY"
k_AWS_SECRET_ACCESS_KEY ==
    <<"A","W","S","_","S","E","C","R","E","T","_","A","C","C","E","S","S","_","K","E","Y">>

\* "No se pudo"
pre_no_se_pudo ==
    <<"N","o"," ","s","e"," ","p","u","d","o">>

\* "Error"
pre_error ==
    <<"E","r","r","o","r">>

\* "Hello"
hello ==
    <<"H","e","l","l","o">>

\* "Hi there"
hi_there ==
    <<"H","i"," ","t","h","e","r","e">>

\* "que tal"
que_tal ==
    <<"q","u","e"," ","t","a","l">>

\* "ANTHROPIC.CLAUDE-V2"
id_upper_anthropic ==
    <<"A","N","T","H","R","O","P","I","C",".","C","L","A","U","D","E","-","V","2">>

\* "amazon.Anthropic-proxy"
id_amazon_then_anthropic ==
    <<"a","m","a","z","o","n",".","A","n","t","h","r","o","p","i","c","-","p","r","o","x","y">>

\* "cohere.AI21-blend"
id_cohere_then_ai21 ==
    <<"c","o","h","e","r","e",".","A","I","2","1","-","b","l","e","n","d">>

\* "Amazon.Titan-Text-Lite-v1"
id_mixed_amazon ==
    <<"A","m","a","z","o","n",".","T","i","t","a","n","-","T","e","x","t","-","L","i","t","e","-","v","1">>

\* "CoHere.command-r"
id_mixed_cohere ==
    <<"C","o","H","e","r","e",".","c","o","m","m","a","n","d","-","r">>

\* "meta.llama3-8b-instruct-v1:0"
id_unrecognized ==
    <<"m","e","t","a",".","l","l","a","m","a","3","-","8","b","-","i","n","s","t","r","u","c","t","-","v","1",":","0">>

\* "hola"
heard_hola ==
    <<"h","o","l","a">>

\* "Error 404"
heard_error ==
    <<"E","r","r","o","r"," ","4","0","4">>

\* "timed out"
err_timeout ==
    <<"t","i","m","e","d"," ","o","u","t">>

(***************************************************************************)
(* Python string operations.                                               *)
(***************************************************************************)
UpperCase ==
    <<"A","B","C","D","E","F","G","H","I","J","K","L","M",
      "N","O","P","Q","R","S","T","U","V","W","X","Y","Z">>

LowerCase ==
    <<"a","b","c","d","e","f","g","h","i","j","k","l","m",
      "n","o","p","q","r","s","t","u","v","w","x","y","z">>

\* str.lower() on one character
LowerChar(c) ==
    IF \E i \in 1..Len(UpperCase) : UpperCase[i] = c
    THEN LowerCase[CHOOSE i \in 1..Len(UpperCase) : UpperCase[i] = c]
    ELSE c

\* model_id.lower()
Lower(s) ==
    [i \in 1..Len(s) |-> LowerChar(s[i])]

\* sub in s
Contains(sub, s) ==
    \E i \in 0..(Len(s) - Len(sub)) : SubSeq(s, i + 1, i + Len(sub)) = sub

\* s.startswith(prefix)
StartsWith(s, prefix) ==
    /\ Len(prefix) <= Len(s)
    /\ SubSeq(s, 1, Len(prefix)) = prefix

(***************************************************************************)
(* Python values: dict, list, str, int, float (in tenths) and None.        *)
(* A dict is the tuple of its <<key, value>> items in insertion order.     *)
(***************************************************************************)
JStr(s) == [t |-> "str", v |-> s]

JNum(n) == [t |-> "num", v |-> n]

JDec(tenths) == [t |-> "dec", v |-> tenths]

JArr(xs) == [t |-> "arr", v |-> xs]

JObj(items) == [t |-> "obj", v |-> items]

\* None
JNull == [t |-> "null", v |-> <<>>]

\* an exception propagating out of an expression
PyRaise == [t |-> "raise", v |-> <<>>]

HasKey(d, k) ==
    \E i \in 1..Len(d.v) : d.v[i][1] = k

\* d.get(k, default): AttributeError when d is no dict
Get(d, k, default) ==
    IF d.t = "raise" THEN d
    ELSE IF d.t # "obj" THEN PyRaise
    ELSE IF HasKey(d, k)
         THEN d.v[CHOOSE i \in 1..Len(d.v) : d.v[i][1] = k][2]
         ELSE default

\* x[0]: IndexError on an empty list or string, TypeError or KeyError on the rest
Index0(x) ==
    IF x.t = "raise" THEN x
    ELSE IF x.t = "arr" /\ Len(x.v) > 0 THEN x.v[1]
    ELSE IF x.t = "str" /\ Len(x.v) > 0 THEN JStr(<<x.v[1]>>)
    ELSE PyRaise

\* bool(x), the test of `if response:`
Truthy(x) ==
    CASE x.t \in {"str", "arr", "obj"} -> Len(x.v) > 0
      [] x.t \in {"num", "dec"} -> x.v # 0
      [] OTHER -> FALSE

DigitChars ==
    <<"0","1","2","3","4","5","6","7","8","9">>

RECURSIVE Digits(_)
\* str(n) for an int n >= 0
Digits(n) ==
    IF n < 10 THEN <<DigitChars[n + 1]>>
    ELSE Digits(n \div 10) \o <<DigitChars[(n % 10) + 1]>>

RECURSIVE Repr(_)
RECURSIVE ReprItems(_, _)
\* the comma-separated reprs of xs[i..], xs the elements of a list or the items of a dict
ReprItems(x, i) ==
    IF i > Len(x.v) THEN <<>>
    ELSE (IF i > 1 THEN <<",", " ">> ELSE <<>>)
         \o (IF x.t = "obj"
             THEN <<"'">> \o x.v[i][1] \o <<"'", ":", " ">> \o Repr(x.v[i][2])
             ELSE Repr(x.v[i]))
         \o ReprItems(x, i + 1)

\* str(response_body): Python's repr of a parsed JSON value
Repr(x) ==
    CASE x.t = "str" -> <<"'">> \o x.v \o <<"'">>
      [] x.t = "num" -> Digits(x.v)
      [] x.t = "dec" -> Digits(x.v \div 10) \o <<".">> \o Digits(x.v % 10)
      [] x.t = "arr" -> <<"[">> \o ReprItems(x, 1) \o <<"]">>
      [] x.t = "obj" -> <<"{">> \o ReprItems(x, 1) \o <<"}">>
      [] OTHER -> <<"N","o","n","e">>

(***************************************************************************)
(* invoke_bedrock_model: request body, call, extraction.                   *)
(***************************************************************************)
\* `in` applied to the identifier as written: the .lower() left out
build_branch_case_sensitive(model_id) ==
    IF Contains(anthropic, model_id) THEN "anthropic"
    ELSE IF Contains(ai21, model_id) THEN "ai21"
    ELSE IF Contains(amazon, model_id) THEN "amazon"
    ELSE IF Contains(cohere, model_id) THEN "cohere"
    ELSE "default"

\* the branch the if/elif chain that builds the body takes
build_branch(model_id) ==
    IF Contains(anthropic, Lower(model_id)) THEN "anthropic"
    ELSE IF Contains(ai21, Lower(model_id)) THEN "ai21"
    ELSE IF Contains(amazon, Lower(model_id)) THEN "amazon"
    ELSE IF Contains(cohere, Lower(model_id)) THEN "cohere"
    ELSE "default"

\* the request body
build_body(model_id, prompt, max_tokens, temperature) ==
    CASE build_branch(model_id) = "anthropic" ->
            JObj(<< <<k_anthropic_version, JStr(v_bedrock_version)>>,
                    <<k_max_tokens, JNum(max_tokens)>>,
                    <<k_temperature, JDec(temperature)>>,
                    <<k_messages,
                      JArr(<< JObj(<< <<k_role, JStr(v_user)>>,
                                      <<k_content, JStr(prompt)>> >>) >>)>> >>)
      [] build_branch(model_id) = "ai21" ->
            JObj(<< <<k_prompt, JStr(prompt)>>,
                    <<k_maxTokens, JNum(max_tokens)>>,
                    <<k_temperature, JDec(temperature)>> >>)
      [] build_branch(model_id) = "amazon" ->
            JObj(<< <<k_inputText, JStr(prompt)>>,
                    <<k_textGenerationConfig,
                      JObj(<< <<k_maxTokenCount, JNum(max_tokens)>>,
                              <<k_temperature, JDec(temperature)>> >>)>> >>)
      [] build_branch(model_id) = "cohere" ->
            JObj(<< <<k_prompt, JStr(prompt)>>,
                    <<k_max_tokens, JNum(max_tokens)>>,
                    <<k_temperature, JDec(temperature)>> >>)
      [] OTHER ->
            JObj(<< <<k_prompt, JStr(prompt)>>,
                    <<k_max_tokens, JNum(max_tokens)>>,
                    <<k_temperature, JDec(temperature)>> >>)

\* the extraction chain written in another order than the build chain
extract_branch_cohere_first(model_id) ==
    IF Contains(anthropic, Lower(model_id)) THEN "anthropic"
    ELSE IF Contains(cohere, Lower(model_id)) THEN "cohere"
    ELSE IF Contains(ai21, Lower(model_id)) THEN "ai21"
    ELSE IF Contains(amazon, Lower(model_id)) THEN "amazon"
    ELSE "default"

\* the branch the if/elif chain that reads the response takes
extract_branch(model_id) ==
    IF Contains(anthropic, Lower(model_id)) THEN "anthropic"
    ELSE IF Contains(ai21, Lower(model_id)) THEN "ai21"
    ELSE IF Contains(amazon, Lower(model_id)) THEN "amazon"
    ELSE IF Contains(cohere, Lower(model_id)) THEN "cohere"
    ELSE "default"

\* the text read from the parsed response body, or PyRaise
extract_text(model_id, response_body) ==
    CASE extract_branch(model_id) = "anthropic" ->
            Get(Index0(Get(response_body, k_content, JArr(<<JObj(<<>>)>>))),
                k_text, JStr(<<>>))
      [] extract_branch(model_id) = "ai21" ->
            Get(Get(Index0(Get(response_body, k_completions, JArr(<<JObj(<<>>)>>))),
                    k_data, JObj(<<>>)),
                k_text, JStr(<<>>))
      [] extract_branch(model_id) = "amazon" ->
            Get(Index0(Get(response_body, k_results, JArr(<<JObj(<<>>)>>))),
                k_outputText, JStr(<<>>))
      [] extract_branch(model_id) = "cohere" ->
            Get(Index0(Get(response_body, k_generations, JArr(<<JObj(<<>>)>>))),
                k_text, JStr(<<>>))
      [] OTHER ->
            JStr(Repr(response_body))

\* What bedrock_client.invoke_model and json.loads give for one call:
\* kind "ClientError" (a structured service error), "Exception" (anything
\* else raised by the call or by json.loads), or "body" with the parsed body.
ServiceError(kind) == [kind |-> kind, body |-> JNull]

ServiceBody(body) == [kind |-> "body", body |-> body]

\* the return value of invoke_bedrock_model: the extracted text, or None
\* after either except clause
invoke_bedrock_model(model_id, prompt, max_tokens, temperature, reply) ==
    IF reply.kind # "body" THEN JNull
    ELSE LET text == extract_text(model_id, reply.body)
         IN  IF text.t = "raise" THEN JNull ELSE text

(***************************************************************************)
(* Credentials and client initialisation.                                  *)
(*                                                                         *)
(* A credential value is a Python str or None.  The remote service knows   *)
(* the key pairs of AccountKeys; the default provider chain of the host    *)
(* yields the pair `ambient`, or None for both when nothing is configured. *)
(***************************************************************************)
AccessKey1 == JStr(<<"A","K","I","A","1">>)

SecretKey1 == JStr(<<"s","k","1">>)

AccessKey2 == JStr(<<"A","K","I","A","2">>)

SecretKey2 == JStr(<<"s","k","2">>)

\* a revoked pair
AccessKey3 == JStr(<<"A","K","I","A","3">>)

SecretKey3 == JStr(<<"s","k","3">>)

\* the text_input widget left empty
EmptyInput == JStr(<<>>)

AccountKeys ==
    { <<AccessKey1, SecretKey1>>, <<AccessKey2, SecretKey2>> }

NoCredentials == [id |-> JNull, key |-> JNull]

\* .streamlit/secrets.toml with both entries
SecretsFile(id, key) ==
    JObj(<< <<k_AWS_ACCESS_KEY_ID, id>>, <<k_AWS_SECRET_ACCESS_KEY, key>> >>)

\* the contents secrets.toml takes in the model
SecretStores ==
    << SecretsFile(AccessKey1, SecretKey1),
       SecretsFile(AccessKey2, SecretKey2),
       SecretsFile(AccessKey3, SecretKey3),
       JObj(<< <<k_AWS_ACCESS_KEY_ID, AccessKey1>> >>) >>

\* None, the value init_bedrock_client returns from its except clauses
NoClient == [ok |-> FALSE, region |-> "none", id |-> JNull, key |-> JNull]

\* a boto3 client bound to a region and a key pair
Client(region, creds) ==
    [ok |-> TRUE, region |-> region, id |-> creds.id, key |-> creds.key]

\* One signed request to the remote service with the given credentials (the
\* connection test list_foundation_models of app.py, the identity check
\* get_caller_identity of app2.py, each taken for the remote call the source
\* says it is): without credentials botocore raises NoCredentialsError
\* before sending (calls = 0); otherwise the request is sent once and the
\* service accepts the key pairs it knows.
remote_call(creds) ==
    IF creds.id = JNull \/ creds.key = JNull
    THEN [ok |-> FALSE, calls |-> 0]
    ELSE [ok |-> <<creds.id, creds.key>> \in AccountKeys, calls |-> 1]

\* st.secrets[name], PyRaise for the KeyError
secret(secrets, name) ==
    Get(secrets, name, PyRaise)

\* src/app.py init_bedrock_client, the body behind the cache:
\* args = [region, use_secrets, id, key].  The result names the client
\* returned (NoClient for None), the remote calls issued and the except
\* clause taken.
app_init_bedrock_client(args, secrets, ambient) ==
    LET creds ==
            IF args.use_secrets
            THEN [id  |-> secret(secrets, k_AWS_ACCESS_KEY_ID),
                  key |-> secret(secrets, k_AWS_SECRET_ACCESS_KEY)]
            ELSE IF Truthy(args.id) /\ Truthy(args.key)
                 THEN [id |-> args.id, key |-> args.key]
                 ELSE ambient
        test == remote_call(creds)
    IN  IF creds.id = PyRaise \/ creds.key = PyRaise
        THEN [client |-> NoClient, calls |-> 0, error |-> "KeyError"]
        ELSE IF test.ok
        THEN [client |-> Client(args.region, creds), calls |-> test.calls,
              error |-> "none"]
        ELSE [client |-> NoClient, calls |-> test.calls,
              error |-> IF test.calls = 0 THEN "Exception" ELSE "ClientError"]

\* src/app2.py verify_aws_credentials: the identity check
verify_aws_credentials(id, key, ambient) ==
    IF Truthy(id) /\ Truthy(key)
    THEN remote_call([id |-> id, key |-> key])
    ELSE remote_call(ambient)

\* src/app2.py init_bedrock_client, the body behind the cache: args = [region]
app2_init_bedrock_client(args, secrets, ambient) ==
    LET creds == [id  |-> secret(secrets, k_AWS_ACCESS_KEY_ID),
                  key |-> secret(secrets, k_AWS_SECRET_ACCESS_KEY)]
        check == verify_aws_credentials(creds.id, creds.key, ambient)
    IN  IF creds.id = PyRaise \/ creds.key = PyRaise
        THEN [client |-> NoClient, calls |-> 0, error |-> "KeyError"]
        ELSE IF check.ok
        THEN [client |-> Client(args.region, creds), calls |-> check.calls,
              error |-> "none"]
        ELSE [client |-> NoClient, calls |-> check.calls, error |-> "invalid"]

(***************************************************************************)
(* Voice bridge (src/app2.py).                                             *)
(***************************************************************************)
\* the cap of text_to_speech
TTS_MAX_CHARS == 1000

\* the cap applied from 1000 characters on: `>=` in place of `>`
text_to_speech_cap_inclusive(text, lang, engine_ok) ==
    IF text.t # "str"
    THEN [sent |-> JNull, audio |-> JNull]
    ELSE LET spoken == IF Len(text.v) >= TTS_MAX_CHARS
                       THEN SubSeq(text.v, 1, TTS_MAX_CHARS) \o <<".", ".", ".">>
                       ELSE text.v
         IN  [sent  |-> JStr(spoken),
              audio |-> IF engine_ok /\ Len(spoken) > 0
                        THEN [t |-> "bytes", v |-> spoken]
                        ELSE JNull]

\* text_to_speech(text, lang): `sent` is the text handed to gTTS (None when
\* an exception came first), `audio` the bytes returned (None after the
\* except clause).  engine_ok: whether gTTS produced audio.
text_to_speech(text, lang, engine_ok) ==
    IF text.t # "str"
    THEN [sent |-> JNull, audio |-> JNull]
    ELSE LET spoken == IF Len(text.v) > TTS_MAX_CHARS
                       THEN SubSeq(text.v, 1, TTS_MAX_CHARS) \o <<".", ".", ".">>
                       ELSE text.v
         IN  [sent  |-> JStr(spoken),
              audio |-> IF engine_ok /\ Len(spoken) > 0
                        THEN [t |-> "bytes", v |-> spoken]
                        ELSE JNull]

\* What happens inside one speech_to_text call, by the first statement that
\* raises: "create_error" (NamedTemporaryFile), "write_error"
\* (tmp_file.write), "load_error" (sr.AudioFile, record), "unknown_value"
\* and "request_error" (recognize_google), "recognize_error" (anything else
\* from recognize_google), or "recognized" with the text heard.
SttOutcome(kind, text, msg) == [kind |-> kind, text |-> text, msg |-> msg]

\* speech_to_text(audio_data, language): the string returned, whether the
\* temporary file was created, and whether it is still there on return
speech_to_text(o) ==
    LET created == o.kind # "create_error"
        \* line 98 ran: tmp_file_path is bound
        path_bound == created /\ o.kind # "write_error"
        \* line 114 ran
        unlinked == o.kind = "recognized"
        exists_at_finally == created /\ ~unlinked
        \* lines 126-127
        removed_in_finally == path_bound /\ exists_at_finally
    IN  [text |-> CASE o.kind = "recognized" -> o.text
                    [] o.kind = "unknown_value" -> msg_unintelligible
                    [] o.kind = "request_error" -> msg_request_error \o o.msg
                    [] OTHER -> msg_processing_error \o o.msg,
         created |-> created,
         left |-> exists_at_finally /\ ~removed_in_finally]

\* the test without its "Error" prefix
is_prompt_without_error_prefix(transcribed_text) ==
    /\ Len(transcribed_text) > 0
    /\ ~StartsWith(transcribed_text, pre_no_se_pudo)

\* the test of line 302 on the string speech_to_text returned
is_prompt(transcribed_text) ==
    /\ Len(transcribed_text) > 0
    /\ ~StartsWith(transcribed_text, pre_no_se_pudo)
    /\ ~StartsWith(transcribed_text, pre_error)

(***************************************************************************)
(* Inputs: what the user, the sidebar and the remote services supply.      *)
(***************************************************************************)
MaxTurns == 2

\* distinct argument tuples init_bedrock_client is called with
MaxCacheEntries == 2

\* app2.py's fixed parameters; temperature in tenths
DefaultMaxTokens == 1000

DefaultTemperature == 7

\* the selectbox of src/app.py
model_options ==
    { claude3_sonnet, claude3_haiku, claude_v2, j2_ultra, j2_mid,
      titan_express, command_text }

\* identifiers invoke_bedrock_model is applied to on its own
ModelIds ==
    model_options \cup
    { id_upper_anthropic, id_amazon_then_anthropic, id_cohere_then_ai21,
      id_mixed_amazon, id_mixed_cohere, id_unrecognized }

Prompts == { hello, que_tal }

\* response bodies holding text T at each family's path
anthropic_response(T) ==
    JObj(<< <<k_content, JArr(<< JObj(<< <<k_text, T>> >>) >>)>> >>)

ai21_response(T) ==
    JObj(<< <<k_completions,
              JArr(<< JObj(<< <<k_data, JObj(<< <<k_text, T>> >>)>> >>) >>)>> >>)

amazon_response(T) ==
    JObj(<< <<k_results, JArr(<< JObj(<< <<k_outputText, T>> >>) >>)>> >>)

cohere_response(T) ==
    JObj(<< <<k_generations, JArr(<< JObj(<< <<k_text, T>> >>) >>)>> >>)

\* {key: []} and {key: [{}]}
EmptyList(key) == JObj(<< <<key, JArr(<<>>)>> >>)

EmptyItem(key) == JObj(<< <<key, JArr(<< JObj(<<>>) >>)>> >>)

\* the reactions of the inference endpoint to one call
Replies ==
    << ServiceError("ClientError"),
       ServiceError("Exception"),
       ServiceBody(anthropic_response(JStr(hi_there))),
       ServiceBody(ai21_response(JStr(hi_there))),
       ServiceBody(amazon_response(JStr(hi_there))),
       ServiceBody(cohere_response(JStr(hi_there))),
       ServiceBody(anthropic_response(JStr(<<>>))),
       ServiceBody(ai21_response(JStr(<<>>))),
       ServiceBody(amazon_response(JStr(<<>>))),
       ServiceBody(cohere_response(JStr(<<>>))),
       ServiceBody(JObj(<<>>)),
       ServiceBody(EmptyList(k_content)),
       ServiceBody(EmptyList(k_completions)),
       ServiceBody(EmptyList(k_results)),
       ServiceBody(EmptyList(k_generations)),
       ServiceBody(EmptyItem(k_content)),
       ServiceBody(EmptyItem(k_completions)),
       ServiceBody(EmptyItem(k_results)),
       ServiceBody(EmptyItem(k_generations)),
       ServiceBody(JObj(<< <<k_completions,
                             JArr(<< JObj(<< <<k_data, JObj(<<>>)>> >>) >>)>> >>)),
       ServiceBody(anthropic_response(JNull)) >>

\* what can happen inside speech_to_text
SttOutcomes ==
    { SttOutcome("recognized", heard_hola, <<>>),
      SttOutcome("recognized", heard_error, <<>>),
      SttOutcome("create_error", <<>>, err_timeout),
      SttOutcome("write_error", <<>>, err_timeout),
      SttOutcome("load_error", <<>>, <<>>),
      SttOutcome("unknown_value", <<>>, <<>>),
      SttOutcome("request_error", <<>>, err_timeout),
      SttOutcome("request_error", <<>>, <<>>),
      SttOutcome("recognize_error", <<>>, err_timeout) }

\* lengths of the texts text_to_speech is applied to on its own
SpeechLengths == { 0, 1, 2, 999, 1000, 1001, 1002, 1003, 1004, 1500 }

\* a text of n characters: c up to position k, d after it
Filled(n, k, c, d) == [i \in 1..n |-> IF i <= k THEN c ELSE d]

SpeechTexts ==
    { Filled(n, k, "a", "b") : n \in SpeechLengths, k \in { 0, 999, 1000, 1001 } }

\* two of the languages of the "Idioma de voz" selectbox
VoiceLangs == { "es", "en" }

Regions == { "us-east-1", "us-west-2" }

\* the arguments main passes to init_bedrock_client, by sidebar setting
AuthArgs(region, use_secrets, id, key) ==
    [region |-> region, use_secrets |-> use_secrets, id |-> id, key |-> key]

AuthChoices(v) ==
    IF v = "app2"
    THEN { AuthArgs("us-east-1", TRUE, JNull, JNull) }
    ELSE { AuthArgs(r, TRUE, JNull, JNull) : r \in Regions }
         \cup { AuthArgs("us-east-1", FALSE, JNull, JNull) }
         \cup { AuthArgs("us-east-1", FALSE, i, k) :
                    i \in { EmptyInput, AccessKey1 },
                    k \in { EmptyInput, SecretKey1 } }

(***************************************************************************)
(* State.                                                                  *)
(***************************************************************************)
VARIABLES
    variant,         \* "app" (src/app.py) or "app2" (src/app2.py)
    secrets,         \* st.secrets, the contents of secrets.toml
    ambient,         \* the key pair of the default provider chain
    auth,            \* the arguments the sidebar gives init_bedrock_client
    cache,           \* st.cache_resource of init_bedrock_client
    bedrock_client,  \* main's bedrock_client in the latest script run
    last_init,       \* history: the latest call of init_bedrock_client
    messages,        \* st.session_state.messages
    pc,              \* "idle", or the handler's position: "call", "reply", "append"
    args,            \* the arguments of the turn being processed
    request,         \* the body handed to invoke_model
    reply,           \* index in Replies of the endpoint's reaction, 0: none
    response,        \* the value invoke_bedrock_model returned
    speech,          \* the text_to_speech call of the turn being processed
    stt,             \* the speech_to_text call of the latest script run
    invLog,          \* history: the calls of the inference endpoint
    turns,           \* history: user turns appended so far
    notice           \* what the latest script run showed last

credVars == <<secrets, ambient, auth, cache, bedrock_client, last_init>>

frameVars == <<args, request, reply, response, speech>>

chatVars == <<messages, pc, invLog, turns>>

vars ==
    <<variant, secrets, ambient, auth, cache, bedrock_client, last_init,
      messages, pc, args, request, reply, response, speech, stt, invLog,
      turns, notice>>

NoArgs ==
    [prompt |-> <<>>, selected_model |-> <<>>, max_tokens |-> 0,
     temperature |-> 0, voice_lang |-> "none"]

\* text_to_speech has not been called
NoSpeech == [called |-> FALSE, sent |-> JNull, audio |-> JNull]

NoStt == [kind |-> "none", text |-> <<>>, created |-> FALSE, left |-> FALSE]

NoInit ==
    [args |-> AuthArgs("none", FALSE, JNull, JNull), secrets |-> JObj(<<>>),
     hit |-> FALSE, calls |-> 0, error |-> "none", client |-> NoClient,
     ran |-> FALSE]

\* a conversation turn; `turn` is history: the number of the user turn it
\* belongs to
Turn(role, content, audio, n) ==
    [role |-> role, content |-> content, audio |-> audio, turn |-> n]

\* the sidebar's model and parameters in one script run
ParamChoices(v) ==
    IF v = "app2"
    THEN { [selected_model |-> claude3_sonnet, max_tokens |-> DefaultMaxTokens,
            temperature |-> DefaultTemperature, voice_lang |-> l] :
               l \in { "none", "es" } }
    ELSE { [selected_model |-> m, max_tokens |-> DefaultMaxTokens,
            temperature |-> DefaultTemperature, voice_lang |-> "none"] :
               m \in model_options }

\* the sidebar as first rendered: region us-east-1, method "Secrets.toml"
DefaultAuth == AuthArgs("us-east-1", TRUE, JNull, JNull)

\* the process has started and main has not run yet
InitCommon ==
    /\ variant \in { "app", "app2" }
    /\ auth = DefaultAuth
    /\ cache = {}
    /\ bedrock_client = NoClient
    /\ last_init = NoInit
    /\ messages = <<>>
    /\ pc = "idle"
    /\ args = NoArgs
    /\ request = JNull
    /\ reply = 0
    /\ response = JNull
    /\ speech = NoSpeech
    /\ stt = NoStt
    /\ invLog = <<>>
    /\ turns = 0
    /\ notice = "none"

\* a session: secrets.toml is complete and valid, or lacks an entry, and
\* stays as it is
Init ==
    /\ InitCommon
    /\ secrets \in { SecretStores[1], SecretStores[4] }
    /\ ambient = NoCredentials

\* the resolver: any secrets.toml, with or without default credentials
InitCred ==
    /\ InitCommon
    /\ \E i \in 1..Len(SecretStores) : secrets = SecretStores[i]
    /\ ambient \in { NoCredentials, [id |-> AccessKey1, key |-> SecretKey1] }

(***************************************************************************)
(* The cached call of init_bedrock_client at the top of every script run.  *)
(***************************************************************************)
\* the function body of the running front end
init_bedrock_client(a) ==
    IF variant = "app"
    THEN app_init_bedrock_client(a, secrets, ambient)
    ELSE app2_init_bedrock_client(a, secrets, ambient)

\* @st.cache_resource: the stored result for equal arguments, else the body
\* runs and its return value (None included) is stored
cached_init(a) ==
    IF \E e \in cache : e.args = a
    THEN [hit |-> TRUE, calls |-> 0, error |-> "none",
          client |-> (CHOOSE e \in cache : e.args = a).client]
    ELSE LET r == init_bedrock_client(a)
         IN  [hit |-> FALSE, calls |-> r.calls, error |-> r.error,
              client |-> r.client]

Startup(a) ==
    LET r == cached_init(a)
    IN  /\ r.hit \/ Cardinality(cache) < MaxCacheEntries
        /\ cache' = IF r.hit THEN cache
                    ELSE cache \cup { [args |-> a, client |-> r.client] }
        /\ bedrock_client' = r.client
        /\ last_init' = [args |-> a, secrets |-> secrets, hit |-> r.hit,
                         calls |-> r.calls, error |-> r.error,
                         client |-> r.client, ran |-> TRUE]
        /\ auth' = a
        /\ UNCHANGED <<secrets, ambient>>

(***************************************************************************)
(* Script runs.  Every UI event runs main from the top: the sidebar, the   *)
(* cached init_bedrock_client, and, with a client, the event's handler.    *)
(* A handler that calls the inference endpoint is split at that blocking   *)
(* call: pc = "call" before it, pc = "reply" once it has returned, and     *)
(* pc = "append" once the speech engine has answered.                      *)
(***************************************************************************)
\* a retry loop: None sends the handler back to the call
after_invoke_retry(resp) == IF resp = JNull THEN "call" ELSE "reply"

\* invoke_bedrock_model never loops: after either outcome control returns
\* to the caller's `if response:`
after_invoke(resp) == "reply"

\* the test left out: every return value is taken for an answer
has_response_always(resp) == TRUE

\* `if response is not None:` in place of `if response:`
has_response_not_none(resp) == resp # JNull

\* the caller's test `if response:`
has_response(resp) == Truthy(resp)

\* whether one of invoke_bedrock_model's except clauses ran
invoke_raised(model_id, r) ==
    \/ r.kind # "body"
    \/ extract_text(model_id, r.body).t = "raise"

\* process_user_message up to the call: the user turn is appended
BeginTurn(p, w) ==
    /\ messages' = Append(messages, Turn("user", JStr(p), JNull, turns + 1))
    /\ turns' = turns + 1
    /\ args' = [prompt |-> p, selected_model |-> w.selected_model,
                max_tokens |-> w.max_tokens, temperature |-> w.temperature,
                voice_lang |-> w.voice_lang]
    /\ pc' = "call"
    /\ UNCHANGED <<request, reply, response, speech, invLog>>

\* a script run with no chat event: page load, or a sidebar widget changed
Refresh ==
    /\ pc = "idle"
    /\ Startup(auth)
    /\ stt' = NoStt
    /\ notice' = IF bedrock_client'.ok THEN "none" ELSE "no_client"
    /\ UNCHANGED <<variant, chatVars, frameVars>>

\* a clear that keeps the latest entry: messages[-1:] in place of []
ClearChat_keeps_latest_turn ==
    /\ pc = "idle"
    /\ messages' = IF messages = <<>> THEN <<>>
                   ELSE << messages[Len(messages)] >>
    /\ Startup(auth)
    /\ stt' = NoStt
    /\ notice' = IF bedrock_client'.ok THEN "none" ELSE "no_client"
    /\ UNCHANGED <<variant, pc, invLog, turns, frameVars>>

\* the "Limpiar Chat" button: the history is emptied, st.rerun() runs main again
ClearChat ==
    /\ pc = "idle"
    /\ messages' = <<>>
    /\ Startup(auth)
    /\ stt' = NoStt
    /\ notice' = IF bedrock_client'.ok THEN "none" ELSE "no_client"
    /\ UNCHANGED <<variant, pc, invLog, turns, frameVars>>

\* st.chat_input returned p
SubmitText(p, w) ==
    /\ pc = "idle"
    /\ turns < MaxTurns
    /\ Startup(auth)
    /\ stt' = NoStt
    /\ IF bedrock_client'.ok
       THEN /\ BeginTurn(p, w)
            /\ notice' = "none"
       ELSE /\ notice' = "no_client"
            /\ UNCHANGED <<chatVars, frameVars>>
    /\ UNCHANGED variant

\* audio_recorder returned audio bytes (src/app2.py); o is what happens
\* inside speech_to_text
SubmitVoice(o, w) ==
    /\ variant = "app2"
    /\ pc = "idle"
    /\ turns < MaxTurns
    /\ Startup(auth)
    /\ IF bedrock_client'.ok
       THEN LET r == speech_to_text(o)
            IN  /\ stt' = [kind |-> o.kind, text |-> r.text,
                           created |-> r.created, left |-> r.left]
                /\ IF is_prompt(r.text)
                   THEN /\ BeginTurn(r.text, w)
                        /\ notice' = "recognized"
                   ELSE /\ notice' = "stt_error"
                        /\ UNCHANGED <<chatVars, frameVars>>
       ELSE /\ notice' = "no_client"
            /\ stt' = NoStt
            /\ UNCHANGED <<chatVars, frameVars>>
    /\ UNCHANGED variant

\* invoke_bedrock_model: the body is built, the endpoint reacts with
\* Replies[r], the text is extracted
InvokeModel(r) ==
    /\ pc = "call"
    /\ request' = build_body(args.selected_model, args.prompt,
                             args.max_tokens, args.temperature)
    /\ reply' = r
    /\ response' = invoke_bedrock_model(args.selected_model, args.prompt,
                                        args.max_tokens, args.temperature,
                                        Replies[r])
    /\ invLog' = Append(invLog,
                        [turn |-> turns,
                         status |-> IF invoke_raised(args.selected_model, Replies[r])
                                    THEN "failed" ELSE "completed"])
    /\ pc' = after_invoke(response')
    /\ UNCHANGED <<variant, credVars, messages, turns, args, speech, stt, notice>>

\* voice output skipped: the answer is appended without audio
synthesis_due_never(resp, voice_lang) == FALSE

\* `if response:` and, inside it, `if voice_enabled and voice_lang:` (main
\* passes None for voice_lang when voice output is off)
synthesis_due(resp, voice_lang) ==
    has_response(resp) /\ voice_lang # "none"

\* process_user_message from `if response:` to the return of text_to_speech,
\* a blocking call of the speech engine: message_data is prepared and not
\* yet appended
Synthesize(engine_ok) ==
    /\ pc = "reply"
    /\ synthesis_due(response, args.voice_lang)
    /\ LET r == text_to_speech(response, args.voice_lang, engine_ok)
       IN  speech' = [called |-> TRUE, sent |-> r.sent, audio |-> r.audio]
    /\ pc' = "append"
    /\ notice' = IF speech'.audio # JNull THEN "audio" ELSE "no_audio"
    /\ UNCHANGED <<variant, credVars, messages, invLog, turns, args, request, reply,
                   response, stt>>

\* the rest of process_user_message: the answer (with its audio when
\* text_to_speech returned some) is appended, or the error is shown;
\* app2.py then reruns main
Reply ==
    /\ \/ pc = "append"
       \/ pc = "reply" /\ ~synthesis_due(response, args.voice_lang)
    /\ IF has_response(response)
       THEN /\ messages' = Append(messages,
                                  Turn("assistant", response, speech.audio, turns))
            /\ notice' = "answer"
       ELSE /\ messages' = messages
            /\ notice' = "no_response"
    /\ pc' = "idle"
    /\ args' = NoArgs
    /\ request' = JNull
    /\ reply' = 0
    /\ response' = JNull
    /\ speech' = NoSpeech
    /\ stt' = NoStt
    /\ IF variant = "app2" THEN Startup(auth) ELSE UNCHANGED credVars
    /\ UNCHANGED <<variant, invLog, turns>>

Next ==
    \/ Refresh
    \/ ClearChat
    \/ \E p \in Prompts : \E w \in ParamChoices(variant) : SubmitText(p, w)
    \/ \E o \in SttOutcomes : \E w \in ParamChoices(variant) : SubmitVoice(o, w)
    \/ \E r \in 1..Len(Replies) : InvokeModel(r)
    \/ \E engine_ok \in BOOLEAN : Synthesize(engine_ok)
    \/ Reply

Spec == Init /\ [][Next]_vars

(***************************************************************************)
(* The credential resolver on its own: script runs under changing sidebar  *)
(* settings and a changing secrets.toml.                                   *)
(***************************************************************************)
\* the sidebar's region, method or keys changed: main runs with them
ChangeAuth(a) ==
    /\ pc = "idle"
    /\ a # auth
    /\ Startup(a)
    /\ stt' = NoStt
    /\ notice' = IF bedrock_client'.ok THEN "none" ELSE "no_client"
    /\ UNCHANGED <<variant, chatVars, frameVars>>

\* secrets.toml is rewritten
ChangeSecrets(i) ==
    /\ secrets # SecretStores[i]
    /\ secrets' = SecretStores[i]
    /\ UNCHANGED <<variant, ambient, auth, cache, bedrock_client, last_init,
                   chatVars, frameVars, stt, notice>>

NextCred ==
    \/ Refresh
    \/ \E a \in AuthChoices(variant) : ChangeAuth(a)
    \/ \E i \in 1..Len(SecretStores) : ChangeSecrets(i)

SpecCred == InitCred /\ [][NextCred]_vars

(***************************************************************************)
(* invoke_bedrock_model on its own, applied to any identifier.             *)
(***************************************************************************)
InvokeArgs ==
    { [prompt |-> p, selected_model |-> m, max_tokens |-> n.max_tokens,
       temperature |-> n.temperature, voice_lang |-> "none"] :
          p \in Prompts, m \in ModelIds,
          n \in { [max_tokens |-> DefaultMaxTokens, temperature |-> DefaultTemperature],
                  [max_tokens |-> 50, temperature |-> 5] } }

InitInvoke ==
    /\ variant = "app2"
    /\ secrets = SecretStores[1]
    /\ ambient = NoCredentials
    /\ auth \in AuthChoices(variant)
    /\ bedrock_client = Client(auth.region, [id |-> AccessKey1, key |-> SecretKey1])
    /\ cache = { [args |-> auth, client |-> bedrock_client] }
    /\ last_init = NoInit
    /\ args \in InvokeArgs
    /\ messages = << Turn("user", JStr(args.prompt), JNull, 1) >>
    /\ turns = 1
    /\ pc = "call"
    /\ request = JNull
    /\ reply = 0
    /\ response = JNull
    /\ speech = NoSpeech
    /\ stt = NoStt
    /\ invLog = <<>>
    /\ notice = "none"

\* the caller calls again, with other arguments
NextCall(a) ==
    /\ pc = "reply"
    /\ args' = a
    /\ messages' = << Turn("user", JStr(a.prompt), JNull, 1) >>
    /\ invLog' = <<>>
    /\ pc' = "call"
    /\ request' = JNull
    /\ reply' = 0
    /\ response' = JNull
    /\ UNCHANGED <<variant, credVars, turns, speech, stt, notice>>

NextInvoke ==
    \/ \E r \in 1..Len(Replies) : InvokeModel(r)
    \/ \E a \in InvokeArgs : NextCall(a)

SpecInvoke == InitInvoke /\ [][NextInvoke]_vars

(***************************************************************************)
(* text_to_speech on its own, applied to texts of any length.              *)
(***************************************************************************)
SpeechArgs ==
    { [prompt |-> hello, selected_model |-> claude3_sonnet,
       max_tokens |-> DefaultMaxTokens, temperature |-> DefaultTemperature,
       voice_lang |-> l] : l \in VoiceLangs }

InitSpeech ==
    /\ variant = "app2"
    /\ secrets = SecretStores[1]
    /\ ambient = NoCredentials
    /\ auth = DefaultAuth
    /\ bedrock_client = Client(auth.region, [id |-> AccessKey1, key |-> SecretKey1])
    /\ cache = { [args |-> auth, client |-> bedrock_client] }
    /\ last_init = NoInit
    /\ args \in SpeechArgs
    /\ messages = << Turn("user", JStr(args.prompt), JNull, 1) >>
    /\ turns = 1
    /\ pc = "reply"
    /\ request = JNull
    /\ reply = 0
    /\ \E t \in SpeechTexts : response = JStr(t)
    /\ speech = NoSpeech
    /\ stt = NoStt
    /\ invLog = <<>>
    /\ notice = "none"

\* text_to_speech(response, voice_lang) is called and returns
CallTextToSpeech(engine_ok) ==
    /\ pc = "reply"
    /\ LET r == text_to_speech(response, args.voice_lang, engine_ok)
       IN  speech' = [called |-> TRUE, sent |-> r.sent, audio |-> r.audio]
    /\ pc' = "append"
    /\ notice' = IF speech'.audio # JNull THEN "audio" ELSE "no_audio"
    /\ UNCHANGED <<variant, credVars, messages, invLog, turns, args, request,
                   reply, response, stt>>

\* the caller calls again, with another text and language
NextText(t, a) ==
    /\ pc = "append"
    /\ args' = a
    /\ response' = JStr(t)
    /\ speech' = NoSpeech
    /\ pc' = "reply"
    /\ notice' = "none"
    /\ UNCHANGED <<variant, credVars, messages, invLog, turns, request, reply, stt>>

NextSpeech ==
    \/ \E engine_ok \in BOOLEAN : CallTextToSpeech(engine_ok)
    \/ \E t \in SpeechTexts : \E a \in SpeechArgs : NextText(t, a)

SpecSpeech == InitSpeech /\ [][NextSpeech]_vars

(***************************************************************************)
(* The specification's vocabulary, used by the properties below.           *)
(***************************************************************************)
\* the named provider families in dispatch order (spec 4.2)
FamilyOrder == << anthropic, ai21, amazon, cohere >>

FamilyNames == << "anthropic", "ai21", "amazon", "cohere" >>

\* the identifier with every ASCII capital replaced by its small letter
CaseFolded(model_id) ==
    [i \in 1..Len(model_id) |->
        IF \E j \in 1..Len(UpperCase) : model_id[i] = UpperCase[j]
        THEN LowerCase[CHOOSE j \in 1..Len(UpperCase) : model_id[i] = UpperCase[j]]
        ELSE model_id[i]]

\* family n's name occurs in the identifier, whatever the letter case
Matches(model_id, n) ==
    \E i \in 1..(Len(model_id) - Len(FamilyOrder[n]) + 1) :
        \A j \in 1..Len(FamilyOrder[n]) :
            CaseFolded(model_id)[i + j - 1] = FamilyOrder[n][j]

\* first match wins; "default" when nothing matches
FamilyOf(model_id) ==
    IF \E n \in 1..Len(FamilyOrder) : Matches(model_id, n)
    THEN FamilyNames[CHOOSE n \in 1..Len(FamilyOrder) :
                        /\ Matches(model_id, n)
                        /\ \A m \in 1..(n - 1) : ~Matches(model_id, m)]
    ELSE "default"

\* the wire payload of each family (spec 6)
FamilyPayload(family, p, max_tokens, temperature) ==
    CASE family = "anthropic" ->
            JObj(<< <<k_anthropic_version, JStr(v_bedrock_version)>>,
                    <<k_max_tokens, JNum(max_tokens)>>,
                    <<k_temperature, JDec(temperature)>>,
                    <<k_messages,
                      JArr(<< JObj(<< <<k_role, JStr(v_user)>>,
                                      <<k_content, JStr(p)>> >>) >>)>> >>)
      [] family = "ai21" ->
            JObj(<< <<k_prompt, JStr(p)>>, <<k_maxTokens, JNum(max_tokens)>>,
                    <<k_temperature, JDec(temperature)>> >>)
      [] family = "amazon" ->
            JObj(<< <<k_inputText, JStr(p)>>,
                    <<k_textGenerationConfig,
                      JObj(<< <<k_maxTokenCount, JNum(max_tokens)>>,
                              <<k_temperature, JDec(temperature)>> >>)>> >>)
      [] OTHER ->
            JObj(<< <<k_prompt, JStr(p)>>, <<k_max_tokens, JNum(max_tokens)>>,
                    <<k_temperature, JDec(temperature)>> >>)

\* the list key and the response fixture of each named family (spec 6)
FamilyListKey(family) ==
    CASE family = "anthropic" -> k_content
      [] family = "ai21" -> k_completions
      [] family = "amazon" -> k_results
      [] OTHER -> k_generations

FamilyResponse(family, T) ==
    CASE family = "anthropic" -> anthropic_response(T)
      [] family = "ai21" -> ai21_response(T)
      [] family = "amazon" -> amazon_response(T)
      [] OTHER -> cohere_response(T)

\* the assistant turns of the history, and the calls made for a user turn
AssistantTurns == { i \in DOMAIN messages : messages[i].role = "assistant" }

CallsOf(n) == { j \in DOMAIN invLog : invLog[j].turn = n }

(***************************************************************************)
(* Properties.                                                             *)
(***************************************************************************)
\* C1: every assistant turn of the history comes from exactly one call of the
\* inference endpoint, that call completed, and it produced no other turn; a
\* failed call (ClientError or any other exception) has no assistant turn.
C1_AssistantTurnsFromCompletedInvocations ==
    /\ \A i \in AssistantTurns :
          /\ Cardinality(CallsOf(messages[i].turn)) = 1
          /\ \A j \in CallsOf(messages[i].turn) : invLog[j].status = "completed"
          /\ \A k \in AssistantTurns : messages[k].turn = messages[i].turn => k = i
    /\ \A j \in DOMAIN invLog :
          invLog[j].status = "failed" =>
              \A i \in AssistantTurns : messages[i].turn # invLog[j].turn

\* C1 witness: an answered turn is in the history after another turn's call failed
C1_Witness ==
    /\ pc = "idle"
    /\ AssistantTurns # {}
    /\ \E j \in DOMAIN invLog : invLog[j].status = "failed"

\* the endpoint's reaction in the call that has just returned
LastReply == Replies[reply]

\* C2: the request body is the payload of the first family, in the order
\* anthropic, ai21, amazon, cohere, whose name occurs in the model identifier
\* whatever the letter case, and the default payload {prompt, max_tokens,
\* temperature} when none occurs; building it raises nothing (a call the
\* endpoint answers completes); the body is the payload of no family with
\* another shape.
C2_PayloadOfFirstMatchingFamily ==
    pc = "reply" =>
        LET family == FamilyOf(args.selected_model)
            payload(f) == FamilyPayload(f, args.prompt, args.max_tokens,
                                        args.temperature)
        IN  /\ request = payload(family)
            /\ \A f \in { "anthropic", "ai21", "amazon", "cohere", "default" } :
                  request = payload(f) =>
                      \/ f = family
                      \/ { f, family } = { "cohere", "default" }
            /\ (family = "default" /\ LastReply.kind = "body") =>
                  /\ invLog[Len(invLog)].status = "completed"
                  /\ response = JStr(Repr(LastReply.body))

\* C2 witness: an identifier with amazon before Anthropic, in mixed case, got
\* the anthropic payload
C2_Witness ==
    /\ pc = "reply"
    /\ args.selected_model = id_amazon_then_anthropic
    /\ HasKey(request, k_messages)

\* C2 witness: an unrecognized identifier got the default payload and an answer
C2_WitnessDefault ==
    /\ pc = "reply"
    /\ args.selected_model = id_unrecognized
    /\ HasKey(request, k_prompt)
    /\ Truthy(response)

\* the named family's text path is absent from the body: the list key is
\* missing, its list is empty, or the first element lacks the text field
PathAbsent(family, body) ==
    \/ ~HasKey(body, FamilyListKey(family))
    \/ body = EmptyList(FamilyListKey(family))
    \/ body = EmptyItem(FamilyListKey(family))
    \/ /\ family = "ai21"
       /\ body = JObj(<< <<k_completions,
                           JArr(<< JObj(<< <<k_data, JObj(<<>>)>> >>) >>)>> >>)

\* C3: for each named family, a response body without the family's text path
\* extracts to the empty text, and the call does not end in an except clause.
C3_AbsentPathGivesEmptyText ==
    ( /\ pc = "reply"
      /\ LastReply.kind = "body"
      /\ FamilyOf(args.selected_model) # "default"
      /\ PathAbsent(FamilyOf(args.selected_model), LastReply.body) )
    => /\ response = JStr(<<>>)
       /\ invLog[Len(invLog)].status = "completed"

\* C3, the part the code keeps: with the list key missing, or the first
\* element lacking the text field, the empty text is returned
C3_MissingKeyOrFieldGivesEmptyText ==
    ( /\ pc = "reply"
      /\ LastReply.kind = "body"
      /\ FamilyOf(args.selected_model) # "default"
      /\ PathAbsent(FamilyOf(args.selected_model), LastReply.body)
      /\ LastReply.body # EmptyList(FamilyListKey(FamilyOf(args.selected_model))) )
    => /\ response = JStr(<<>>)
       /\ invLog[Len(invLog)].status = "completed"

\* the value at the family's prompt field: messages[0].content, inputText
\* or prompt
PromptField(family, body) ==
    CASE family = "anthropic" -> Get(Index0(Get(body, k_messages, PyRaise)),
                                     k_content, PyRaise)
      [] family = "amazon" -> Get(body, k_inputText, PyRaise)
      [] OTHER -> Get(body, k_prompt, PyRaise)

\* C10: for every identifier the request carries the prompt at the field of
\* the identifier's family, and a response holding a text at that same
\* family's path extracts to exactly that text, while the same text at
\* another family's path does not.
C10_ExtractionMirrorsBuild ==
    pc = "reply" =>
        LET family == FamilyOf(args.selected_model)
        IN  family # "default" =>
                /\ PromptField(family, request) = JStr(args.prompt)
                /\ \A T \in { hi_there, <<>> } :
                      ( /\ LastReply.kind = "body"
                        /\ LastReply.body = FamilyResponse(family, JStr(T)) )
                      => response = JStr(T)
                /\ \A g \in { "anthropic", "ai21", "amazon", "cohere" } :
                      ( /\ LastReply.kind = "body"
                        /\ LastReply.body = FamilyResponse(g, JStr(hi_there))
                        /\ response = JStr(hi_there) )
                      => g = family

\* C10 witness: the example of the specification, 'Hello' to Claude 3 Sonnet
\* answered {content: [{text: 'Hi there'}]}
C10_Witness ==
    /\ pc = "reply"
    /\ args.selected_model = claude3_sonnet
    /\ args.prompt = hello
    /\ Get(request, k_messages, JNull)
         = JArr(<< JObj(<< <<k_role, JStr(v_user)>>, <<k_content, JStr(hello)>> >>) >>)
    /\ LastReply = ServiceBody(anthropic_response(JStr(hi_there)))
    /\ response = JStr(hi_there)

\* the sidebar is on manual keys and exactly one of the two fields is filled
ExplicitOneMissing(a) ==
    /\ ~a.use_secrets
    /\ a.id.t = "str"
    /\ a.key.t = "str"
    /\ Truthy(a.id) # Truthy(a.key)

\* C4: when init_bedrock_client runs with manual keys of which exactly one is
\* missing, it returns no client and issues no call to the remote service.
C4_ExplicitOneMissingFailsBeforeNetwork ==
    ( /\ variant = "app"
      /\ last_init.ran
      /\ ~last_init.hit
      /\ ExplicitOneMissing(last_init.args) )
    => /\ ~last_init.client.ok
       /\ last_init.calls = 0

\* C5: once speech_to_text has created its temporary file, the file is gone
\* when the call returns, whatever happened inside.
C5_TempFileRemovedOnReturn ==
    stt.created => ~stt.left

\* C5, the part the code keeps: the file is gone on every path on which
\* tmp_file.write returned
C5_TempFileRemovedAfterWrite ==
    (stt.created /\ stt.kind # "write_error") => ~stt.left

\* no assistant turn of the history has empty content
NoEmptyAssistantTurn ==
    \A i \in AssistantTurns : Truthy(messages[i].content)

\* the caller's step after a call that completed with the empty text: the
\* failure message is shown and the history is left as it is
EmptyTextStep ==
    ( /\ pc = "reply"
      /\ invLog[Len(invLog)].status = "completed"
      /\ response = JStr(<<>>)
      /\ pc' = "idle" )
    => /\ notice' = "no_response"
       /\ messages' = messages

\* C6: a call that completes with the empty text is treated as no content:
\* the failure message is shown, no assistant turn is appended, and no
\* history holds an assistant turn with empty content.
C6_EmptyTextIsNoContent ==
    []NoEmptyAssistantTurn /\ [][EmptyTextStep]_vars

\* C6 witness: a turn whose call completed ended with the failure message and
\* without an assistant turn
C6_Witness ==
    /\ pc = "idle"
    /\ notice = "no_response"
    /\ invLog # <<>>
    /\ invLog[Len(invLog)].status = "completed"
    /\ \A i \in AssistantTurns : messages[i].turn # turns

\* C7: the inference endpoint is called at most once per submitted user turn,
\* and once the turn's call has been made, failed or not, the handler is not
\* about to call again.
C7_NoRetry ==
    /\ Len(invLog) <= turns
    /\ \A i, j \in DOMAIN invLog : invLog[i].turn = invLog[j].turn => i = j
    /\ \A j \in DOMAIN invLog : invLog[j].turn = turns => pc # "call"

\* C7 witness: the first turn's call failed and the next call was the second
\* turn's
C7_Witness ==
    /\ turns = 2
    /\ Len(invLog) = 2
    /\ invLog[1].status = "failed"
    /\ invLog[2].turn = 2

\* C8: the client (or failure) a script run gets from init_bedrock_client is
\* the one its body yields for the credentials in use during that run.
C8_InitReflectsCurrentCredentials ==
    (last_init.ran /\ last_init.secrets = secrets)
    => last_init.client = init_bedrock_client(last_init.args).client

\* C8, the part the code keeps: manual keys are part of the cache key, so a
\* run with other manual keys resolves them
C8_ManualKeysResolvedPerValue ==
    (variant = "app" /\ last_init.ran /\ ~last_init.args.use_secrets
        /\ last_init.secrets = secrets)
    => last_init.client = init_bedrock_client(last_init.args).client

FailedKinds ==
    { "create_error", "write_error", "load_error", "unknown_value",
      "request_error", "recognize_error" }

\* the error string speech_to_text returns for each failure
IsErrorString(kind, text) ==
    CASE kind = "unknown_value" -> text = msg_unintelligible
      [] kind = "request_error" -> StartsWith(text, msg_request_error)
      [] OTHER -> StartsWith(text, msg_processing_error)

\* a script run in which speech_to_text failed
FailedTranscriptionStep ==
    stt'.kind \in FailedKinds =>
        /\ IsErrorString(stt'.kind, stt'.text)
        /\ messages' = messages
        /\ invLog' = invLog
        /\ turns' = turns
        /\ pc' = "idle"
        /\ notice' = "stt_error"

\* C9: a failed transcription returns its error string, and the run that got
\* it appends no user turn and calls no model.
C9_FailedTranscriptionIsFiltered ==
    [][FailedTranscriptionStep]_vars

\* C9 witness: the recognition service failed after an earlier turn, and the
\* run showed the error
C9_Witness ==
    /\ stt.kind = "request_error"
    /\ stt.text = msg_request_error \o err_timeout
    /\ notice = "stt_error"
    /\ pc = "idle"
    /\ messages # <<>>

\* C11: text_to_speech hands the speech engine the input text unchanged when
\* it has at most 1000 characters, and otherwise its first 1000 characters
\* followed by "..."; the text handed over never exceeds 1003 characters, and
\* a 1500-character input goes out as 1000 characters plus "...".
C11_SpeechInputCappedAt1000 ==
    speech.called =>
        /\ speech.sent.t = "str"
        /\ LET text == response.v
               sent == speech.sent.v
           IN  /\ Len(text) <= 1000 => sent = text
               /\ Len(text) > 1000 =>
                     /\ Len(sent) = 1003
                     /\ \A i \in 1..1000 : sent[i] = text[i]
                     /\ \A i \in 1001..1003 : sent[i] = "."
               /\ Len(sent) <= 1003
               /\ Len(text) = 1500 => Len(sent) = 1003

\* C11 witness: a 1500-character text, mixed around position 1000, has gone
\* out as 1003 characters
C11_Witness ==
    /\ speech.called
    /\ Len(response.v) = 1500
    /\ response.v[1000] = "a"
    /\ response.v[1001] = "b"
    /\ Len(speech.sent.v) = 1003

\* C11 witness: a text of exactly 1000 characters has gone out unchanged
C11_WitnessAtCap ==
    /\ speech.called
    /\ Len(response.v) = 1000
    /\ speech.sent = response

\* the turn being processed has its user turn, holding the prompt, as the
\* latest entry of the history
UserTurnIsLatest ==
    /\ messages # <<>>
    /\ messages[Len(messages)] = Turn("user", JStr(args.prompt), JNull, turns)

\* the state of a turn at each position of its handler: before the call the
\* user turn is in the history and nothing has been built or sent; after it
\* one call has been made and the assistant turn is not yet appended; speech
\* synthesis has been attempted exactly when the handler is past it
InTurnOrder ==
    /\ pc = "call" =>
          /\ UserTurnIsLatest
          /\ CallsOf(turns) = {}
          /\ request = JNull
          /\ response = JNull
    /\ pc \in { "reply", "append" } =>
          /\ UserTurnIsLatest
          /\ Cardinality(CallsOf(turns)) = 1
          /\ request # JNull
    /\ pc = "append" =>
          /\ Truthy(response)
          /\ args.voice_lang # "none"
    /\ speech.called <=> pc = "append"

\* the step that appends an assistant turn: its content is the text
\* extracted from the endpoint's answer to this turn's call, and with voice
\* output on speech synthesis has been attempted and its audio is attached
AssistantAppendStep ==
    ( /\ Len(messages') = Len(messages) + 1
      /\ messages'[Len(messages')].role = "assistant" )
    => LET turn == messages'[Len(messages')]
       IN  /\ SubSeq(messages', 1, Len(messages)) = messages
           /\ pc \in { "reply", "append" }
           /\ LastReply.kind = "body"
           /\ turn.content = extract_text(args.selected_model, LastReply.body)
           /\ turn.turn = turns
           /\ IF args.voice_lang # "none"
              THEN speech.called /\ turn.audio = speech.audio
              ELSE ~speech.called /\ turn.audio = JNull

\* C12 as stated: within one turn the user turn is appended, then the request
\* is built and the model invoked, then the text extracted, then the
\* assistant turn appended, then (voice output on) speech synthesized: the
\* user turn is in the history when the call starts, and once synthesis has
\* been attempted the turn's assistant turn is in the history.
C12_AssistantTurnBeforeSynthesis ==
    /\ pc = "call" => UserTurnIsLatest /\ CallsOf(turns) = {}
    /\ pc = "reply" => Cardinality(CallsOf(turns)) = 1
    /\ speech.called =>
          \E i \in AssistantTurns : messages[i].turn = turns

\* C12, amended: within one turn the user turn is appended, then the request
\* is built and the model invoked, then the text extracted, then (voice
\* output on) speech synthesis attempted, then the assistant turn appended,
\* carrying the audio synthesis returned.
C12_SynthesisBeforeAssistantTurn ==
    []InTurnOrder /\ [][AssistantAppendStep]_vars

\* C12 witness: a turn with voice output on has ended with its assistant
\* turn, audio attached, right after its user turn
C12_Witness ==
    /\ pc = "idle"
    /\ Len(messages) >= 2
    /\ messages[Len(messages)].role = "assistant"
    /\ messages[Len(messages)].audio # JNull
    /\ messages[Len(messages) - 1].role = "user"
    /\ messages[Len(messages) - 1].turn = messages[Len(messages)].turn

\* every assistant turn directly follows the user turn of its own turn: the
\* history never starts with an assistant turn and never holds two assistant
\* turns in a row
HistoryShape ==
    /\ messages # <<>> => messages[1].role = "user"
    /\ \A i \in AssistantTurns :
          /\ i > 1
          /\ messages[i - 1].role = "user"
          /\ messages[i - 1].turn = messages[i].turn
    /\ \A i \in AssistantTurns : i + 1 \notin AssistantTurns

\* the step that appends an assistant turn: the entry before it is the user
\* turn whose content is the prompt carried by the request of the call that
\* produced the answer, a completed call of this same turn
ProducedFromPrompt ==
    ( /\ Len(messages') = Len(messages) + 1
      /\ messages'[Len(messages')].role = "assistant" )
    => /\ messages # <<>>
       /\ messages'[Len(messages)] = messages[Len(messages)]
       /\ messages[Len(messages)].role = "user"
       /\ messages[Len(messages)].content =
             PromptField(FamilyOf(args.selected_model), request)
       /\ messages[Len(messages)].turn = messages'[Len(messages')].turn
       /\ invLog # <<>>
       /\ invLog[Len(invLog)] = [turn |-> messages'[Len(messages')].turn,
                                 status |-> "completed"]

\* a history changes by one entry added at its end, or by being emptied
HistoryGrowth ==
    \/ messages' = messages
    \/ messages' = <<>>
    \/ /\ Len(messages') = Len(messages) + 1
       /\ SubSeq(messages', 1, Len(messages)) = messages

\* C13: in every history, after any successful turns, failed turns and
\* clears, each assistant turn comes right after a user turn whose content is
\* the prompt sent in the call that produced it; a failed turn leaves its
\* user turn, so user turns may be adjacent, but assistant turns never are,
\* and no history starts with an assistant turn.
C13_AssistantTurnFollowsItsPrompt ==
    []HistoryShape /\ [][ProducedFromPrompt /\ HistoryGrowth]_vars

\* C13 witness: the first turn failed and left its user turn, the second
\* succeeded: user, user, assistant
C13_Witness ==
    /\ pc = "idle"
    /\ Len(messages) = 3
    /\ messages[1].role = "user" /\ messages[1].turn = 1
    /\ messages[2].role = "user" /\ messages[2].turn = 2
    /\ messages[3].role = "assistant" /\ messages[3].turn = 2
    /\ invLog[1].status = "failed"

\* C13 witness: a successful turn after the history was cleared
C13_WitnessAfterClear ==
    /\ pc = "idle"
    /\ Len(messages) = 2
    /\ messages[1].role = "user" /\ messages[1].turn = 2
    /\ messages[2].role = "assistant" /\ messages[2].turn = 2

====
